---- MODULE Spec2Model ----
(***************************************************************************)
(* mtk_uartboot: the orchestrator of src/main.rs (main, load_bl2,          *)
(* wait_bl2_handshake, wait_for_line, load_fip) driving the BootROM        *)
(* download-agent client (mod bootrom) and the BL2 UART download client    *)
(* (mod bl2) over one serial port.  The two client modules are declared by *)
(* main.rs but their files are not part of the sources at hand: their      *)
(* operations are modelled from their documented contracts (an operation   *)
(* either returns a value or fails fatally), while every decision, order   *)
(* of calls and transfer of the port is the one main.rs writes.            *)
(***************************************************************************)
EXTENDS Integers, Sequences, FiniteSets, TLC

\* ---------------------------------------------------------------- bounds
\* bytes the device sends during one banner wait
MaxBytes == 4
\* bytes one read of the port returns at most
MaxChunk == 2
\* length of a payload file
MaxPayloadLen == 1

\* ------------------------------------------------------ program constants
\* Args::load_addr default, 0x201000
DEFAULT_LOAD_ADDR == 2101248
\* Args::a32_load_addr default, 0x200a00
DEFAULT_A32_LOAD_ADDR == 2099712
\* Args::bl2_load_baudrate default
DEFAULT_BL2_BAUDRATE == 921600
\* width of the checksum accumulator, in bits
ChecksumWidth == 16

\* ------------------------------------------------------------ value sets
\* the bytes of the text channel: two letters and the line terminator
Byte == {"a", "b", "nl"}
\* "Starting UART download handshake", over the model's alphabet
StartBanner == <<"a", "b">>
\* "Received FIP", over the model's alphabet
DoneBanner == <<"b", "a">>

PayloadByte == {1}
RECURSIVE SeqsUpTo(_, _)
SeqsUpTo(S, n) ==
    IF n = 0 THEN {<<>>}
    ELSE LET shorter == SeqsUpTo(S, n - 1)
         IN  shorter \cup {Append(s, x) : s \in {t \in shorter : Len(t) = n - 1}, x \in S}

\* what std::fs::read can return for a path: the bytes of the file
FileContents == SeqsUpTo(PayloadByte, MaxPayloadLen)
\* what one read of the port can deliver
Chunks == SeqsUpTo(Byte, MaxChunk) \ {<<>>}

HwCodes == {0, 4660}
Bl2Versions == {1, 2}

Parties == {"orchestrator", "bootrom", "reader", "bl2"}

\* ----------------------------------------------------------------- state
VARIABLES
    args,       \* the parsed command line (Args)
    pc,         \* position of main
    holds,      \* holds[p]: party p has the Box<dyn SerialPort>; where the run
                \* ends the port stays with its last holder (it is released
                \* only as the process goes away)
    owners,     \* the parties that held the port, in order
    log,        \* the client commands issued to the device, in order
    config,     \* (sb, sla, daa) as returned by get_target_config
    payload,    \* the bytes last read from a file and not yet uploaded
    fileReads,  \* the std::fs::read calls, in order: path, success, bytes
    rbuf,       \* BufReader's internal buffer
    uart_line,  \* wait_for_line's uart_line
    sent,       \* bytes the device has sent during the current wait
    waits,      \* the results of the finished wait_for_line calls, in order
    dropped,    \* bytes left in the BufReader that into_inner just discarded
    devLine,    \* the bytes the device has sent since its last complete line
    delivered,  \* the device has sent a complete line holding the pattern
    zeroReads,  \* the reads in a row that returned Ok(0) in the current
                \* wait, modulo 2
    outcome,    \* "running", "returned" (main returned) or "panicked"
    error       \* the failure the run ended with, "" if none

vars == <<args, pc, holds, owners, log, config, payload, fileReads, rbuf,
          uart_line, sent, waits, dropped, devLine, delivered, zeroReads,
          outcome, error>>

\* -------------------------------------------------------- pure functions
RECURSIVE SumBytes(_)
SumBytes(s) == IF s = <<>> THEN 0 ELSE Head(s) + SumBytes(Tail(s))

\* the checksum computed locally over payload bytes: a running accumulator
\* of fixed width
compute_checksum(data) == SumBytes(data) % (2 ^ ChecksumWidth)

\* str::contains
Contains(line, pattern) ==
    \E i \in 0..(Len(line) - Len(pattern)) :
        SubSeq(line, i + 1, i + Len(pattern)) = pattern

\* position of the first line terminator of s, 0 if there is none (memchr)
FirstNl(s) ==
    IF \E i \in 1..Len(s) : s[i] = "nl"
    THEN CHOOSE i \in 1..Len(s) : s[i] = "nl" /\ \A j \in 1..(i - 1) : s[j] # "nl"
    ELSE 0

\* whether an operation reads from the port: jump_da and go only write
ReadsReply(op) == op \notin {"jump_da", "go"}

\* the failure a client operation ends the run with
FailureOf(op) ==
    CASE op = "handshake" -> "HandshakeTimeout"
      [] op \in {"send_da", "send_fip"} -> "ChecksumMismatch"
      [] OTHER -> "ProtocolError"

\* a client operation returns (TRUE) or fails fatally (FALSE)
ClientOutcomes == BOOLEAN

\* an entry of the log: who issued which operation with which arguments,
\* whether it returned, and what it returned
Cmd(who, op, a, ok, ret) ==
    [who |-> who, op |-> op, args |-> a, ok |-> ok, ret |-> ret, reads |-> ReadsReply(op)]

\* the device's view of the text it sends: the bytes c follow the unfinished
\* line; each line terminator completes a line
RECURSIVE Feed(_, _, _, _)
Feed(line, seen, c, pattern) ==
    IF c = <<>> THEN <<line, seen>>
    ELSE LET l == Append(line, Head(c))
         IN  IF Head(c) = "nl"
             THEN Feed(<<>>, seen \/ Contains(l, pattern), Tail(c), pattern)
             ELSE Feed(l, seen, Tail(c), pattern)

\* a std::fs::read call: the path argument, whether it returned Ok, the bytes
FileRead(path, ok, bytes) == [path |-> path, ok |-> ok, bytes |-> bytes]

Ops(who) == {i \in 1..Len(log) : log[i].who = who}
IssuedOp(who, op) == {i \in 1..Len(log) : log[i].who = who /\ log[i].op = op}

\* the port moves from one party to another
Move(from, to) ==
    /\ holds' = [holds EXCEPT ![from] = FALSE, ![to] = TRUE]
    /\ owners' = Append(owners, to)

\* a panic!/expect/fatal client failure: the run ends with the message
Panic(msg) ==
    /\ pc' = "done"
    /\ outcome' = "panicked"
    /\ error' = msg

\* ------------------------------------------------------------------ Init
Init ==
    /\ args \in [a32_payload : BOOLEAN, fip : BOOLEAN,
                 load_addr : {DEFAULT_LOAD_ADDR},
                 a32_load_addr : {DEFAULT_A32_LOAD_ADDR},
                 bl2_load_baudrate : {DEFAULT_BL2_BAUDRATE}]
    /\ pc = "load_bl2"
    /\ holds = [p \in Parties |-> p = "orchestrator"]
    /\ owners = <<"orchestrator">>
    /\ log = <<>>
    /\ config = <<FALSE, FALSE, FALSE>>
    /\ payload = <<>>
    /\ fileReads = <<>>
    /\ rbuf = <<>>
    /\ uart_line = <<>>
    /\ sent = 0
    /\ waits = <<>>
    /\ dropped = <<>>
    /\ devLine = <<>>
    /\ delivered = FALSE
    /\ zeroReads = 0
    /\ outcome = "running"
    /\ error = ""

\* BromNew followed at once by the first query
BromNew_SkipsHandshake ==
    /\ pc = "load_bl2"
    /\ Move("orchestrator", "bootrom")
    /\ pc' = "brom_get_hw_code"
    /\ UNCHANGED <<args, log, config, payload, fileReads, rbuf, uart_line,
                   sent, waits, dropped, outcome, error>>
    /\ UNCHANGED <<devLine, delivered, zeroReads>>

\* ------------------------------------------------------------- load_bl2
\* BootROM::new(port)
BromNew ==
    /\ pc = "load_bl2"
    /\ Move("orchestrator", "bootrom")
    /\ pc' = "brom_handshake"
    /\ UNCHANGED <<args, log, config, payload, fileReads, rbuf, uart_line,
                   sent, waits, dropped, outcome, error>>
    /\ UNCHANGED <<devLine, delivered, zeroReads>>

\* BromHandshake that tries again when the handshake fails
BromHandshake_Retries ==
    /\ pc = "brom_handshake"
    /\ \E ok \in ClientOutcomes :
        /\ log' = Append(log, Cmd("bootrom", "handshake", <<>>, ok, 0))
        /\ pc' = IF ok THEN "brom_get_hw_code" ELSE "brom_handshake"
        /\ UNCHANGED <<outcome, error>>
    /\ UNCHANGED <<args, holds, owners, config, payload, fileReads, rbuf,
                   uart_line, sent, waits, dropped>>
    /\ UNCHANGED <<devLine, delivered, zeroReads>>

\* brom_dev.handshake()
BromHandshake ==
    /\ pc = "brom_handshake"
    /\ \E ok \in ClientOutcomes :
        /\ log' = Append(log, Cmd("bootrom", "handshake", <<>>, ok, 0))
        /\ IF ok
           THEN pc' = "brom_get_hw_code" /\ UNCHANGED <<outcome, error>>
           ELSE Panic(FailureOf("handshake"))
    /\ UNCHANGED <<args, holds, owners, config, payload, fileReads, rbuf,
                   uart_line, sent, waits, dropped>>
    /\ UNCHANGED <<devLine, delivered, zeroReads>>

\* brom_dev.get_hw_code()
BromGetHwCode ==
    /\ pc = "brom_get_hw_code"
    /\ \E ok \in ClientOutcomes, v \in HwCodes :
        /\ log' = Append(log, Cmd("bootrom", "get_hw_code", <<>>, ok, v))
        /\ IF ok
           THEN pc' = "brom_get_hw_dict" /\ UNCHANGED <<outcome, error>>
           ELSE Panic(FailureOf("get_hw_code"))
    /\ UNCHANGED <<args, holds, owners, config, payload, fileReads, rbuf,
                   uart_line, sent, waits, dropped>>
    /\ UNCHANGED <<devLine, delivered, zeroReads>>

\* brom_dev.get_hw_dict()
BromGetHwDict ==
    /\ pc = "brom_get_hw_dict"
    /\ \E ok \in ClientOutcomes :
        /\ log' = Append(log, Cmd("bootrom", "get_hw_dict", <<>>, ok, <<0, 0, 0>>))
        /\ IF ok
           THEN pc' = "brom_get_target_config" /\ UNCHANGED <<outcome, error>>
           ELSE Panic(FailureOf("get_hw_dict"))
    /\ UNCHANGED <<args, holds, owners, config, payload, fileReads, rbuf,
                   uart_line, sent, waits, dropped>>
    /\ UNCHANGED <<devLine, delivered, zeroReads>>

\* SecurityPanic without its third test
SecurityPanic_IgnoresDaa(sb, sla, daa) ==
    IF sb THEN "Secure boot enabled."
    ELSE IF sla THEN "Serial link authorization enabled."
    ELSE ""

\* the message of the first panic! the three flags run into, "" if none
SecurityPanic(sb, sla, daa) ==
    IF sb THEN "Secure boot enabled."
    ELSE IF sla THEN "Serial link authorization enabled."
    ELSE IF daa THEN "Download agent authorization enabled."
    ELSE ""

\* let (sb, sla, daa) = brom_dev.get_target_config(); if sb {..} if sla {..} if daa {..}
BromGetTargetConfig ==
    /\ pc = "brom_get_target_config"
    /\ \E ok \in ClientOutcomes, sb \in BOOLEAN, sla \in BOOLEAN, daa \in BOOLEAN :
        /\ log' = Append(log, Cmd("bootrom", "get_target_config", <<>>, ok, <<sb, sla, daa>>))
        /\ IF ~ok
           THEN Panic(FailureOf("get_target_config")) /\ UNCHANGED config
           ELSE /\ config' = <<sb, sla, daa>>
                /\ IF SecurityPanic(sb, sla, daa) # ""
                   THEN Panic(SecurityPanic(sb, sla, daa))
                   ELSE pc' = "read_payload" /\ UNCHANGED <<outcome, error>>
    /\ UNCHANGED <<args, holds, owners, payload, fileReads, rbuf,
                   uart_line, sent, waits, dropped>>
    /\ UNCHANGED <<devLine, delivered, zeroReads>>

\* std::fs::read(&args.payload).expect("failed to open payload.")
ReadPayload ==
    /\ pc = "read_payload"
    /\ \/ \E bytes \in FileContents :
            /\ fileReads' = Append(fileReads, FileRead("payload", TRUE, bytes))
            /\ payload' = bytes
            /\ pc' = "send_da"
            /\ UNCHANGED <<outcome, error>>
       \/ /\ fileReads' = Append(fileReads, FileRead("payload", FALSE, <<>>))
          /\ Panic("failed to open payload.")
          /\ UNCHANGED payload
    /\ UNCHANGED <<args, holds, owners, log, config, rbuf, uart_line, sent,
                   waits, dropped>>
    /\ UNCHANGED <<devLine, delivered, zeroReads>>

\* what the device can report as the checksum of an upload
DeviceChecksums(data) ==
    {compute_checksum(data), (compute_checksum(data) + 1) % (2 ^ ChecksumWidth)}

\* SendDa that uploads an empty image whatever was read from the file
SendDa_DropsPayload ==
    /\ pc = "send_da"
    /\ \E ok \in ClientOutcomes, ck \in DeviceChecksums(payload) :
        /\ log' = Append(log, Cmd("bootrom", "send_da", <<args.load_addr, 0, <<>>>>, ok, ck))
        /\ IF ok
           THEN /\ pc' = IF args.a32_payload THEN "read_a32_payload" ELSE "jump_da"
                /\ UNCHANGED <<outcome, error>>
           ELSE Panic(FailureOf("send_da"))
    /\ payload' = <<>>
    /\ UNCHANGED <<args, holds, owners, config, fileReads, rbuf, uart_line,
                   sent, waits, dropped>>
    /\ UNCHANGED <<devLine, delivered, zeroReads>>

\* brom_dev.send_da(args.load_addr, 0, payload.as_slice()); match &args.a32_payload
SendDa ==
    /\ pc = "send_da"
    /\ \E ok \in ClientOutcomes, ck \in DeviceChecksums(payload) :
        /\ log' = Append(log, Cmd("bootrom", "send_da", <<args.load_addr, 0, payload>>, ok, ck))
        /\ IF ok
           THEN /\ pc' = IF args.a32_payload THEN "read_a32_payload" ELSE "jump_da"
                /\ UNCHANGED <<outcome, error>>
           ELSE Panic(FailureOf("send_da"))
    /\ payload' = <<>>
    /\ UNCHANGED <<args, holds, owners, config, fileReads, rbuf, uart_line,
                   sent, waits, dropped>>
    /\ UNCHANGED <<devLine, delivered, zeroReads>>

\* std::fs::read(a32_path).expect("failed to open payload.")
ReadA32Payload ==
    /\ pc = "read_a32_payload"
    /\ \/ \E bytes \in FileContents :
            /\ fileReads' = Append(fileReads, FileRead("a32_payload", TRUE, bytes))
            /\ payload' = bytes
            /\ pc' = "send_da_a32"
            /\ UNCHANGED <<outcome, error>>
       \/ /\ fileReads' = Append(fileReads, FileRead("a32_payload", FALSE, <<>>))
          /\ Panic("failed to open payload.")
          /\ UNCHANGED payload
    /\ UNCHANGED <<args, holds, owners, log, config, rbuf, uart_line, sent,
                   waits, dropped>>
    /\ UNCHANGED <<devLine, delivered, zeroReads>>

\* brom_dev.send_da(args.a32_load_addr, 0, a32_payload.as_slice())
SendDaA32 ==
    /\ pc = "send_da_a32"
    /\ \E ok \in ClientOutcomes, ck \in DeviceChecksums(payload) :
        /\ log' = Append(log, Cmd("bootrom", "send_da", <<args.a32_load_addr, 0, payload>>, ok, ck))
        /\ IF ok
           THEN pc' = "jump_da" /\ UNCHANGED <<outcome, error>>
           ELSE Panic(FailureOf("send_da"))
    /\ payload' = <<>>
    /\ UNCHANGED <<args, holds, owners, config, fileReads, rbuf, uart_line,
                   sent, waits, dropped>>
    /\ UNCHANGED <<devLine, delivered, zeroReads>>

\* JumpAddr that is the primary load address in both arms
JumpAddr_AlwaysPrimary == args.load_addr

\* the address of the match arm's jump
JumpAddr == IF args.a32_payload THEN args.a32_load_addr ELSE args.load_addr

\* JumpDa that leaves the client where it can jump again
JumpDa_Stays ==
    /\ pc = "jump_da"
    /\ log' = Append(log, Cmd("bootrom", "jump_da", <<JumpAddr>>, TRUE, 0))
    /\ pc' = "jump_da"
    /\ UNCHANGED <<args, holds, owners, config, payload, fileReads, rbuf,
                   uart_line, sent, waits, dropped, outcome, error>>
    /\ UNCHANGED <<devLine, delivered, zeroReads>>

\* brom_dev.jump_da(addr): the command is written and no reply is read
JumpDa ==
    /\ pc = "jump_da"
    /\ log' = Append(log, Cmd("bootrom", "jump_da", <<JumpAddr>>, TRUE, 0))
    /\ pc' = "brom_into_serial_port"
    /\ UNCHANGED <<args, holds, owners, config, payload, fileReads, rbuf,
                   uart_line, sent, waits, dropped, outcome, error>>
    /\ UNCHANGED <<devLine, delivered, zeroReads>>

\* BromIntoSerialPort that hands out the port and keeps it too
BromIntoSerialPort_KeepsPort ==
    /\ pc = "brom_into_serial_port"
    /\ holds' = [holds EXCEPT !["orchestrator"] = TRUE]
    /\ owners' = Append(owners, "orchestrator")
    /\ pc' = "main_fip"
    /\ UNCHANGED <<args, log, config, payload, fileReads, rbuf, uart_line,
                   sent, waits, dropped, outcome, error>>
    /\ UNCHANGED <<devLine, delivered, zeroReads>>

\* brom_dev.into_serial_port(), returned to main
BromIntoSerialPort ==
    /\ pc = "brom_into_serial_port"
    /\ Move("bootrom", "orchestrator")
    /\ pc' = "main_fip"
    /\ UNCHANGED <<args, log, config, payload, fileReads, rbuf, uart_line,
                   sent, waits, dropped, outcome, error>>
    /\ UNCHANGED <<devLine, delivered, zeroReads>>

\* ------------------------------------------------------------------ main
\* main returns
Return ==
    /\ pc' = "done"
    /\ outcome' = "returned"
    /\ UNCHANGED error

\* wait_for_line's first lines: BufReader::new(port), uart_line, ret = false
StartWait(from, next, pattern) ==
    /\ Move(from, "reader")
    /\ log' = Append(log, Cmd("reader", "wait_for_line", <<pattern>>, TRUE, 0))
    /\ rbuf' = <<>>
    /\ uart_line' = <<>>
    /\ sent' = 0
    /\ devLine' = <<>>
    /\ delivered' = FALSE
    /\ zeroReads' = 0
    /\ pc' = next

\* MainFip that waits for BL2 whether or not a FIP path was given
MainFip_AlwaysWaits ==
    /\ pc = "main_fip"
    /\ StartWait("orchestrator", "wait_start", StartBanner)
    /\ UNCHANGED <<outcome, error>>
    /\ UNCHANGED <<args, config, payload, fileReads, waits, dropped>>

\* if let Some(fip_path) = &args.fip { wait_bl2_handshake(port) ... }
MainFip ==
    /\ pc = "main_fip"
    /\ IF args.fip
       THEN StartWait("orchestrator", "wait_start", StartBanner) /\ UNCHANGED <<outcome, error>>
       ELSE Return /\ UNCHANGED <<holds, owners, log, rbuf, uart_line, sent, devLine,
                                 delivered, zeroReads>>
    /\ UNCHANGED <<args, config, payload, fileReads, waits, dropped>>

\* --------------------------------------------------------- wait_for_line
WaitPcs == {"wait_start", "wait_done"}

\* the pattern argument of the wait_for_line call in progress
Pattern == IF pc = "wait_start" THEN StartBanner ELSE DoneBanner

\* FinishWait that fails the run when the completion banner did not come
FinishWait_FailsIfAbsent(ret, buf) ==
    /\ waits' = Append(waits, ret)
    /\ dropped' = buf
    /\ rbuf' = <<>>
    /\ uart_line' = <<>>
    /\ sent' = 0
    /\ Move("reader", "orchestrator")
    /\ IF pc = "wait_start"
       THEN pc' = "main_handshake_result" /\ UNCHANGED <<outcome, error>>
       ELSE IF ret THEN Return ELSE Panic("Timeout waiting for specified message.")

\* the end of wait_for_line: (ret, reader.into_inner()).  The bytes still in
\* the BufReader's buffer go with the BufReader.  The first wait returns to
\* main, the second is the last statement of load_fip, after which main ends.
FinishWait(ret, buf) ==
    /\ waits' = Append(waits, ret)
    /\ dropped' = buf
    /\ rbuf' = <<>>
    /\ uart_line' = <<>>
    /\ sent' = 0
    /\ Move("reader", "orchestrator")
    /\ IF pc = "wait_start"
       THEN pc' = "main_handshake_result" /\ UNCHANGED <<outcome, error>>
       ELSE Return

\* the body of the while loop, read_line having returned Ok with uart_line =
\* line and buf left in the BufReader, the device having sent n bytes
LoopBody(line, buf, n) ==
    IF Contains(line, Pattern)
    THEN FinishWait(TRUE, buf)
    ELSE /\ uart_line' = <<>>
         /\ rbuf' = buf
         /\ sent' = n
         /\ UNCHANGED <<waits, dropped, holds, owners, pc, outcome, error>>

\* read_until over the available bytes avail: up to and including the first
\* line terminator they are appended to the line, which is then complete;
\* without a terminator all are appended and read_line goes on reading
TakeLine(avail, line, n) ==
    LET i == FirstNl(avail)
    IN  IF i > 0
        THEN LoopBody(line \o SubSeq(avail, 1, i), SubSeq(avail, i + 1, Len(avail)), n)
        ELSE /\ uart_line' = line \o avail
             /\ rbuf' = <<>>
             /\ sent' = n
             /\ UNCHANGED <<waits, dropped, holds, owners, pc, outcome, error>>

\* the port's read returns some bytes
WaitData ==
    /\ pc \in WaitPcs
    /\ rbuf = <<>>
    /\ \E c \in Chunks :
        /\ sent + Len(c) <= MaxBytes
        /\ TakeLine(c, uart_line, sent + Len(c))
        /\ devLine' = Feed(devLine, delivered, c, Pattern)[1]
        /\ delivered' = Feed(devLine, delivered, c, Pattern)[2]
    /\ zeroReads' = 0
    /\ UNCHANGED <<args, log, config, payload, fileReads>>

\* read_line is served from the bytes already buffered
WaitBuffered ==
    /\ pc \in WaitPcs
    /\ rbuf # <<>>
    /\ TakeLine(rbuf, uart_line, sent)
    /\ zeroReads' = 0
    /\ UNCHANGED <<args, log, config, payload, fileReads, devLine, delivered>>

\* the port's read returns Ok(0): read_line returns Ok with what it has, and
\* the loop goes on unless that holds the pattern
WaitEof ==
    /\ pc \in WaitPcs
    /\ rbuf = <<>>
    /\ LoopBody(uart_line, <<>>, sent)
    /\ devLine' = <<>>
    /\ delivered' = (delivered \/ Contains(devLine, Pattern))
    /\ zeroReads' = IF Contains(uart_line, Pattern) THEN 0 ELSE 1 - zeroReads
    /\ UNCHANGED <<args, log, config, payload, fileReads>>

\* the port's read fails (the 2 s timeout elapsed): read_line returns Err
WaitTimeout ==
    /\ pc \in WaitPcs
    /\ rbuf = <<>>
    /\ FinishWait(FALSE, <<>>)
    /\ zeroReads' = 0
    /\ UNCHANGED <<args, log, config, payload, fileReads, devLine, delivered>>

\* MainHandshakeResult that starts the BL2 session whatever the wait returned
MainHandshakeResult_IgnoresResult ==
    /\ pc = "main_handshake_result"
    /\ Move("orchestrator", "bl2")
    /\ pc' = "bl2_handshake"
    /\ UNCHANGED <<outcome, error>>
    /\ dropped' = <<>>
    /\ devLine' = <<>>
    /\ UNCHANGED <<delivered, zeroReads, args, log, config, payload, fileReads, rbuf, uart_line,
                   sent, waits>>

\* if !handshake_result { return; } load_fip(port, ..): BL2::new(port)
MainHandshakeResult ==
    /\ pc = "main_handshake_result"
    /\ IF ~waits[Len(waits)]
       THEN Return /\ UNCHANGED <<holds, owners>>
       ELSE /\ Move("orchestrator", "bl2")
            /\ pc' = "bl2_handshake"
            /\ UNCHANGED <<outcome, error>>
    /\ dropped' = <<>>
    /\ devLine' = <<>>
    /\ UNCHANGED <<delivered, zeroReads, args, log, config, payload, fileReads, rbuf, uart_line,
                   sent, waits>>

\* -------------------------------------------------------------- load_fip
\* BL2::handshake, called at next's predecessor: it returns or fails fatally
Bl2HandshakeCall(next) ==
    \E ok \in ClientOutcomes :
        /\ log' = Append(log, Cmd("bl2", "handshake", <<>>, ok, 0))
        /\ IF ok
           THEN pc' = next /\ UNCHANGED <<outcome, error>>
           ELSE Panic(FailureOf("handshake"))

\* Bl2Handshake followed at once by set_baudrate, without the version query
Bl2Handshake_SkipsVersion ==
    /\ pc = "bl2_handshake"
    /\ Bl2HandshakeCall("bl2_set_baudrate")
    /\ UNCHANGED <<args, holds, owners, config, payload, fileReads, rbuf,
                   uart_line, sent, waits, dropped>>
    /\ UNCHANGED <<devLine, delivered, zeroReads>>

\* bl2_dev.handshake(), the first
Bl2Handshake ==
    /\ pc = "bl2_handshake"
    /\ Bl2HandshakeCall("bl2_version")
    /\ UNCHANGED <<args, holds, owners, config, payload, fileReads, rbuf,
                   uart_line, sent, waits, dropped>>
    /\ UNCHANGED <<devLine, delivered, zeroReads>>

\* Bl2Version that skips the baud-rate switch for protocol version 1
Bl2Version_GatesOnValue ==
    /\ pc = "bl2_version"
    /\ \E ok \in ClientOutcomes, v \in Bl2Versions :
        /\ log' = Append(log, Cmd("bl2", "version", <<>>, ok, v))
        /\ IF ok
           THEN /\ pc' = IF v = 1 THEN "bl2_handshake_again" ELSE "bl2_set_baudrate"
                /\ UNCHANGED <<outcome, error>>
           ELSE Panic(FailureOf("version"))
    /\ UNCHANGED <<args, holds, owners, config, payload, fileReads, rbuf,
                   uart_line, sent, waits, dropped>>
    /\ UNCHANGED <<devLine, delivered, zeroReads>>

\* bl2_dev.version()
Bl2Version ==
    /\ pc = "bl2_version"
    /\ \E ok \in ClientOutcomes, v \in Bl2Versions :
        /\ log' = Append(log, Cmd("bl2", "version", <<>>, ok, v))
        /\ IF ok
           THEN pc' = "bl2_set_baudrate" /\ UNCHANGED <<outcome, error>>
           ELSE Panic(FailureOf("version"))
    /\ UNCHANGED <<args, holds, owners, config, payload, fileReads, rbuf,
                   uart_line, sent, waits, dropped>>
    /\ UNCHANGED <<devLine, delivered, zeroReads>>

\* Bl2SetBaudrate followed at once by the upload, without the second handshake
Bl2SetBaudrate_NoResync ==
    /\ pc = "bl2_set_baudrate"
    /\ \E ok \in ClientOutcomes :
        /\ log' = Append(log, Cmd("bl2", "set_baudrate", <<args.bl2_load_baudrate>>, ok, 0))
        /\ IF ok
           THEN pc' = "read_fip" /\ UNCHANGED <<outcome, error>>
           ELSE Panic(FailureOf("set_baudrate"))
    /\ UNCHANGED <<args, holds, owners, config, payload, fileReads, rbuf,
                   uart_line, sent, waits, dropped>>
    /\ UNCHANGED <<devLine, delivered, zeroReads>>

\* bl2_dev.set_baudrate(baudrate)
Bl2SetBaudrate ==
    /\ pc = "bl2_set_baudrate"
    /\ \E ok \in ClientOutcomes :
        /\ log' = Append(log, Cmd("bl2", "set_baudrate", <<args.bl2_load_baudrate>>, ok, 0))
        /\ IF ok
           THEN pc' = "bl2_handshake_again" /\ UNCHANGED <<outcome, error>>
           ELSE Panic(FailureOf("set_baudrate"))
    /\ UNCHANGED <<args, holds, owners, config, payload, fileReads, rbuf,
                   uart_line, sent, waits, dropped>>
    /\ UNCHANGED <<devLine, delivered, zeroReads>>

\* bl2_dev.handshake(), after the baud-rate switch
Bl2HandshakeAgain ==
    /\ pc = "bl2_handshake_again"
    /\ Bl2HandshakeCall("read_fip")
    /\ UNCHANGED <<args, holds, owners, config, payload, fileReads, rbuf,
                   uart_line, sent, waits, dropped>>
    /\ UNCHANGED <<devLine, delivered, zeroReads>>

\* ReadFip that goes on with an empty image when the file cannot be read
ReadFip_IgnoresError ==
    /\ pc = "read_fip"
    /\ \/ \E bytes \in FileContents :
            /\ fileReads' = Append(fileReads, FileRead("fip", TRUE, bytes))
            /\ payload' = bytes
       \/ /\ fileReads' = Append(fileReads, FileRead("fip", FALSE, <<>>))
          /\ payload' = <<>>
    /\ pc' = "bl2_send_fip"
    /\ UNCHANGED <<outcome, error>>
    /\ UNCHANGED <<args, holds, owners, log, config, rbuf, uart_line, sent,
                   waits, dropped>>
    /\ UNCHANGED <<devLine, delivered, zeroReads>>

\* std::fs::read(fip).expect("failed to open fip.")
ReadFip ==
    /\ pc = "read_fip"
    /\ \/ \E bytes \in FileContents :
            /\ fileReads' = Append(fileReads, FileRead("fip", TRUE, bytes))
            /\ payload' = bytes
            /\ pc' = "bl2_send_fip"
            /\ UNCHANGED <<outcome, error>>
       \/ /\ fileReads' = Append(fileReads, FileRead("fip", FALSE, <<>>))
          /\ Panic("failed to open fip.")
          /\ UNCHANGED payload
    /\ UNCHANGED <<args, holds, owners, log, config, rbuf, uart_line, sent,
                   waits, dropped>>
    /\ UNCHANGED <<devLine, delivered, zeroReads>>

\* Bl2SendFip followed by the wait for the completion banner, without go
Bl2SendFip_WaitsBeforeGo ==
    /\ pc = "bl2_send_fip"
    /\ \E ok \in ClientOutcomes :
        /\ log' = Append(log, Cmd("bl2", "send_fip", <<payload>>, ok, 0))
        /\ IF ok
           THEN pc' = "bl2_into_serial_port" /\ UNCHANGED <<outcome, error>>
           ELSE Panic(FailureOf("send_fip"))
    /\ payload' = <<>>
    /\ UNCHANGED <<args, holds, owners, config, fileReads, rbuf, uart_line,
                   sent, waits, dropped>>
    /\ UNCHANGED <<devLine, delivered, zeroReads>>

\* bl2_dev.send_fip(&payload)
Bl2SendFip ==
    /\ pc = "bl2_send_fip"
    /\ \E ok \in ClientOutcomes :
        /\ log' = Append(log, Cmd("bl2", "send_fip", <<payload>>, ok, 0))
        /\ IF ok
           THEN pc' = "bl2_go" /\ UNCHANGED <<outcome, error>>
           ELSE Panic(FailureOf("send_fip"))
    /\ payload' = <<>>
    /\ UNCHANGED <<args, holds, owners, config, fileReads, rbuf, uart_line,
                   sent, waits, dropped>>
    /\ UNCHANGED <<devLine, delivered, zeroReads>>

\* bl2_dev.go()
Bl2Go ==
    /\ pc = "bl2_go"
    /\ log' = Append(log, Cmd("bl2", "go", <<>>, TRUE, 0))
    /\ pc' = "bl2_into_serial_port"
    /\ UNCHANGED <<args, holds, owners, config, payload, fileReads, rbuf,
                   uart_line, sent, waits, dropped, outcome, error>>
    /\ UNCHANGED <<devLine, delivered, zeroReads>>

\* wait_for_line(bl2_dev.into_serial_port(), "Received FIP")
Bl2IntoSerialPort ==
    /\ pc = "bl2_into_serial_port"
    /\ StartWait("bl2", "wait_done", DoneBanner)
    /\ UNCHANGED <<args, config, payload, fileReads, waits, dropped,
                   outcome, error>>

\* --------------------------------------------------------- specification
Next ==
    \/ BromNew
    \/ BromHandshake
    \/ BromGetHwCode
    \/ BromGetHwDict
    \/ BromGetTargetConfig
    \/ ReadPayload
    \/ SendDa
    \/ ReadA32Payload
    \/ SendDaA32
    \/ JumpDa
    \/ BromIntoSerialPort
    \/ MainFip
    \/ WaitData
    \/ WaitBuffered
    \/ WaitEof
    \/ WaitTimeout
    \/ MainHandshakeResult
    \/ Bl2Handshake
    \/ Bl2Version
    \/ Bl2SetBaudrate
    \/ Bl2HandshakeAgain
    \/ ReadFip
    \/ Bl2SendFip
    \/ Bl2Go
    \/ Bl2IntoSerialPort

Spec == Init /\ [][Next]_vars

\* the process keeps running: main and the port's reads go on taking steps
SpecLive == Spec /\ WF_vars(Next)

TypeOK ==
    /\ outcome \in {"running", "returned", "panicked"}
    /\ (pc = "done") = (outcome # "running")
    /\ sent \in 0..MaxBytes
    /\ zeroReads \in {0, 1}

\* ---------------------------------------------------------------- claims
Range(f) == {f[i] : i \in DOMAIN f}
IsPrefix(s, t) == Len(s) <= Len(t) /\ SubSeq(t, 1, Len(s)) = s
NoFlags == <<FALSE, FALSE, FALSE>>
Uploads == IssuedOp("bootrom", "send_da")
Jumps == IssuedOp("bootrom", "jump_da")

\* C1: send_da and jump_da are issued only after get_target_config returned
\* all three flags false; once it returned any flag true, the run has ended
\* in a panic and get_target_config is the last command the device saw (no
\* upload, no jump).
C1_UploadOnlyWithoutSecurityFlags ==
    /\ \A i \in Uploads \cup Jumps :
        \E j \in 1..(i - 1) :
            log[j].op = "get_target_config" /\ log[j].ok /\ log[j].ret = NoFlags
    /\ \A j \in IssuedOp("bootrom", "get_target_config") :
        (log[j].ok /\ log[j].ret # NoFlags) =>
            /\ j = Len(log)
            /\ Uploads = {} /\ Jumps = {}
            /\ outcome = "panicked"
            /\ error \in {"Secure boot enabled.", "Serial link authorization enabled.",
                          "Download agent authorization enabled."}

\* the device reported only daa and the run was aborted
C1_Witness ==
    /\ \E j \in IssuedOp("bootrom", "get_target_config") :
        log[j].ok /\ log[j].ret = <<FALSE, FALSE, TRUE>>
    /\ outcome = "panicked"

\* C2: once the device has reported, for an upload, a checksum that differs
\* from the checksum computed locally over the uploaded bytes, jump_da is
\* never issued.
C2_MismatchNeverJumps ==
    (\E i \in Uploads : log[i].ok /\ log[i].ret # compute_checksum(log[i].args[3]))
        => Jumps = {}

\* C3: every BootROM command other than handshake follows a BootROM
\* handshake that returned, and every BL2 command other than handshake
\* follows a BL2 handshake that returned.
C3_NoCommandBeforeHandshake ==
    \A i \in 1..Len(log) :
        (log[i].who \in {"bootrom", "bl2"} /\ log[i].op # "handshake") =>
            \E j \in 1..(i - 1) :
                log[j].who = log[i].who /\ log[j].op = "handshake" /\ log[j].ok

\* both sessions ran to their last command
C3_Witness == Jumps # {} /\ IssuedOp("bl2", "go") # {}

\* C4: send_fip and go are issued only after a handshake that was issued
\* after set_baudrate has returned.
C4_UploadOnlyAfterResync ==
    \A i \in IssuedOp("bl2", "send_fip") \cup IssuedOp("bl2", "go") :
        \E j \in 1..(i - 1), k \in 1..(i - 1) :
            /\ j < k
            /\ log[j].who = "bl2" /\ log[j].op = "set_baudrate" /\ log[j].ok
            /\ log[j].args = <<args.bl2_load_baudrate>>
            /\ log[k].who = "bl2" /\ log[k].op = "handshake" /\ log[k].ok

\* the FIP was uploaded
C4_Witness == \E i \in IssuedOp("bl2", "send_fip") : log[i].ok

\* C5: when the handshake issued right after set_baudrate fails, the run
\* ends with BaudSwitchFailed.
C5_BaudSwitchFailedReported ==
    (/\ Len(log) >= 2
     /\ log[Len(log)].who = "bl2" /\ log[Len(log)].op = "handshake"
     /\ ~log[Len(log)].ok
     /\ log[Len(log) - 1].op = "set_baudrate") => error = "BaudSwitchFailed"

\* the stage a log entry belongs to: 1 BootROM session, 2 start-banner wait,
\* 3 BL2 session, 4 completion-banner wait
StageOf(e) ==
    CASE e.who = "bootrom" -> 1
      [] e.who = "bl2" -> 3
      [] e.who = "reader" /\ e.args = <<StartBanner>> -> 2
      [] OTHER -> 4

\* C6: the stages come in the order BootROM session, start-banner wait, BL2
\* session, completion-banner wait, each wait begun once, the first right
\* after jump_da and the second right after go; without a FIP path there is
\* no wait and no BL2 command, and after jump_da the port is handed back and
\* main returns.
C6_StageOrder ==
    /\ Len(log) > 0 => StageOf(log[1]) = 1
    /\ \A i \in 2..Len(log) :
        /\ StageOf(log[i - 1]) <= StageOf(log[i])
        /\ StageOf(log[i]) <= StageOf(log[i - 1]) + 1
        /\ StageOf(log[i]) = 2 => log[i - 1].op = "jump_da"
        /\ StageOf(log[i]) = 4 => log[i - 1].op = "go"
    /\ ~args.fip =>
        /\ \A i \in 1..Len(log) : StageOf(log[i]) = 1
        /\ waits = <<>> /\ pc \notin WaitPcs
        /\ Jumps # {} => pc \in {"brom_into_serial_port", "main_fip", "done"}
        /\ (Jumps # {} /\ pc = "done") => outcome = "returned"

\* a run with a FIP path went through all four stages
C6_Witness == args.fip /\ Len(waits) = 2

\* C7: the first wait_for_line returns true exactly when the device sent a
\* complete line holding the start banner; the BL2 client gets the port and
\* issues commands only after it returned true, and always then; after it
\* returned false main has returned, without error and without any BL2
\* command.
C7_Bl2OnlyAfterBanner ==
    /\ (Len(waits) = 1 /\ pc # "wait_done") => (waits[1] <=> delivered)
    /\ (Ops("bl2") # {} \/ holds["bl2"]) => (Len(waits) >= 1 /\ waits[1])
    /\ (Len(waits) >= 1 /\ pc # "main_handshake_result") =>
        IF waits[1]
        THEN "bl2" \in Range(owners)
        ELSE /\ pc = "done" /\ outcome = "returned" /\ error = ""
             /\ Ops("bl2") = {} /\ ~holds["bl2"] /\ Len(waits) = 1

\* the start banner did not come and main returned
C7_Witness == Len(waits) = 1 /\ ~waits[1] /\ ~delivered /\ outcome = "returned"

\* C8: once the wait for the completion banner has ended, with or without
\* the banner, main has returned without error, go having been issued.
C8_CompletionBannerOptional ==
    Len(waits) = 2 =>
        /\ pc = "done" /\ outcome = "returned" /\ error = ""
        /\ IssuedOp("bl2", "go") # {}

\* the completion banner did not come
C8_Witness == Len(waits) = 2 /\ ~waits[2] /\ pc = "done"

\* the order in which main.rs moves the port
OwnershipOrder ==
    <<"orchestrator", "bootrom", "orchestrator", "reader", "orchestrator",
      "bl2", "reader", "orchestrator">>

\* C9: exactly one party holds the port, the one it was last moved to; the
\* port has moved along orchestrator, BootROM client, orchestrator, banner
\* reader, orchestrator, BL2 client, banner reader (and back to load_fip,
\* which ends the run); the two clients never hold it together.
C9_SingleOwnerInOrder ==
    /\ Cardinality({p \in Parties : holds[p]}) = 1
    /\ holds[owners[Len(owners)]]
    /\ IsPrefix(owners, OwnershipOrder)
    /\ ~(holds["bootrom"] /\ holds["bl2"])

\* the port went all the way
C9_Witness == owners = OwnershipOrder

\* C10: jump_da is issued at most once, reads no reply and is the last
\* BootROM command; after it the client still holds the port only until
\* into_serial_port hands it back to main, and whatever is read from the
\* port afterwards is read by the banner reader or the BL2 client that main
\* gave it to.
C10_JumpIsTerminal ==
    /\ Cardinality(Jumps) <= 1
    /\ \A i \in Jumps :
        /\ ~log[i].reads
        /\ \A j \in (i + 1)..Len(log) : log[j].who \in {"reader", "bl2"}
        /\ \/ pc = "brom_into_serial_port" /\ holds["bootrom"]
           \/ ~holds["bootrom"] /\ Len(owners) >= 3 /\ owners[3] = "orchestrator"

\* the jump was issued and main has the port back
C10_Witness == Jumps # {} /\ pc = "main_fip" /\ holds["orchestrator"]

\* C11: when jump_da is issued, with an additional payload two uploads have
\* returned before it, the first to load_addr and the second to
\* a32_load_addr, and the jump goes to a32_load_addr; without one, one
\* upload to load_addr has returned and the jump goes to load_addr.  Either
\* way the jump follows an upload directly and goes to that upload's address.
C11_JumpToLastUpload ==
    /\ Cardinality(Uploads) <= (IF args.a32_payload THEN 2 ELSE 1)
    /\ \A i \in Uploads :
        log[i].args[1] = (IF \E j \in Uploads : j < i
                          THEN args.a32_load_addr ELSE args.load_addr)
    /\ \A i \in Jumps :
        /\ Cardinality(Uploads) = (IF args.a32_payload THEN 2 ELSE 1)
        /\ \A j \in Uploads : j < i /\ log[j].ok
        /\ log[i].args = <<IF args.a32_payload THEN args.a32_load_addr ELSE args.load_addr>>
        /\ log[i - 1].op = "send_da"
        /\ log[i].args[1] = log[i - 1].args[1]

\* both payloads were uploaded to different addresses and the jump was issued
C11_Witness ==
    /\ args.a32_payload /\ args.a32_load_addr # args.load_addr
    /\ Jumps # {}

Waits == IssuedOp("reader", "wait_for_line")

\* C12: the banner reader reads the port only while the wait_for_line it
\* serves is the last thing begun on the port; a wait begins right after
\* jump_da, with no BL2 command issued yet, or right after go, and then no
\* command follows it: no wait lies between two commands of one client.
\* Outside a wait there is no BufReader, hence no line-buffered read.
C12_NoBannerReadInsideSession ==
    /\ \A i \in Waits :
        /\ i > 1 /\ log[i - 1].op \in {"jump_da", "go"}
        /\ log[i - 1].op = "jump_da" => \A j \in 1..(i - 1) : log[j].who = "bootrom"
        /\ log[i - 1].op = "go" => i = Len(log)
        /\ \A j \in (i + 1)..Len(log) : log[j].who # "bootrom"
        /\ ~\E j \in 1..(i - 1), k \in (i + 1)..Len(log) :
              log[j].who = log[k].who /\ log[j].who # "reader"
    /\ pc \in WaitPcs => (holds["reader"] /\ Len(log) \in Waits)
    /\ pc \notin WaitPcs => (~holds["reader"] /\ rbuf = <<>> /\ uart_line = <<>>)

\* the banner reader has read bytes while waiting for the completion banner
C12_Witness == pc = "wait_done" /\ sent > 0 /\ uart_line # <<>>

\* C13: a client operation that failed is the last command of the run, which
\* has ended in a panic with that failure; no operation is issued twice but
\* send_da (once per payload) and the BL2 handshake (once before and once
\* after set_baudrate), so a run issues at most 7 BootROM and 6 BL2 commands.
C13_FailureAbortsNoRetry ==
    /\ \A i \in 1..Len(log) :
        ~log[i].ok =>
            /\ i = Len(log)
            /\ pc = "done" /\ outcome = "panicked" /\ error # ""
    /\ \A who \in {"bootrom", "bl2"} :
        \A i \in Ops(who) :
            Cardinality(IssuedOp(who, log[i].op)) <=
                (IF log[i].op = "send_da" \/ (who = "bl2" /\ log[i].op = "handshake")
                 THEN 2 ELSE 1)
    /\ Cardinality(IssuedOp("bl2", "handshake")) = 2 =>
        \E j \in IssuedOp("bl2", "set_baudrate") :
            \E i \in IssuedOp("bl2", "handshake") :
                \E k \in IssuedOp("bl2", "handshake") : i < j /\ j < k
    /\ Cardinality(Ops("bootrom")) <= 7
    /\ Cardinality(Ops("bl2")) <= 6

\* the upload of the FIP failed and ended the run
C13_Witness ==
    /\ Len(log) > 0 /\ log[Len(log)].op = "send_fip" /\ ~log[Len(log)].ok
    /\ outcome = "panicked"

\* the BL2 commands of the log, in order
Bl2Session == SelectSeq(log, LAMBDA e : e.who = "bl2")
\* the order of the calls on bl2_dev
Bl2Order == <<"handshake", "version", "set_baudrate", "handshake", "send_fip", "go">>

\* C14: the BL2 commands issued so far are the first ones of handshake,
\* version, set_baudrate, handshake, send_fip, go, each issued after the one
\* before it returned; go is issued at most once, after send_fip returned,
\* and no BL2 command follows it.
C14_Bl2CommandOrder ==
    /\ Len(Bl2Session) <= Len(Bl2Order)
    /\ \A k \in 1..Len(Bl2Session) :
        /\ Bl2Session[k].op = Bl2Order[k]
        /\ k < Len(Bl2Session) => Bl2Session[k].ok
    /\ Cardinality(IssuedOp("bl2", "go")) <= 1
    /\ \A i \in IssuedOp("bl2", "go") :
        /\ \E j \in IssuedOp("bl2", "send_fip") : j < i /\ log[j].ok
        /\ \A j \in (i + 1)..Len(log) : log[j].who # "bl2"

\* the BL2 session issued all six commands
C14_Witness == Len(Bl2Session) = 6 /\ Bl2Session[6].op = "go"

\* the BL2 commands issued after the i-th command of the log
Bl2After(i) == SelectSeq(SubSeq(log, i + 1, Len(log)), LAMBDA e : e.who = "bl2")
\* the reads of the FIP file
FipReads == SelectSeq(fileReads, LAMBDA f : f.path = "fip")
\* the calls that follow version(), with the arguments the run's inputs
\* other than the version value give them
AfterVersion ==
    << [op |-> "set_baudrate", args |-> <<args.bl2_load_baudrate>>],
       [op |-> "handshake", args |-> <<>>],
       [op |-> "send_fip", args |-> IF FipReads = <<>> THEN <<>> ELSE <<FipReads[1].bytes>>],
       [op |-> "go", args |-> <<>>] >>

\* C15: the commands issued after a version() that returned, and their
\* arguments, are the first ones of set_baudrate(configured rate), handshake,
\* send_fip(bytes of the FIP file), go, a sequence in which the value that
\* version() returned does not occur; and right after version() returned
\* the run is about to call set_baudrate.  Two runs that differ only in that
\* value therefore issue the same commands with the same arguments.
C15_VersionNeverGates ==
    \A i \in IssuedOp("bl2", "version") :
        log[i].ok =>
            /\ Len(Bl2After(i)) <= Len(AfterVersion)
            /\ \A k \in 1..Len(Bl2After(i)) :
                /\ Bl2After(i)[k].op = AfterVersion[k].op
                /\ Bl2After(i)[k].args = AfterVersion[k].args
            /\ i = Len(log) => (pc = "bl2_set_baudrate" /\ outcome = "running")

\* version() returned the second of the two values and the session went on
\* to go
C15_Witness ==
    /\ \E i \in IssuedOp("bl2", "version") : log[i].ret = 2 /\ Len(Bl2After(i)) = 4
    /\ IssuedOp("bl2", "go") # {}

\* the upload calls of the log, in order
FileUploads == SelectSeq(log, LAMBDA e : e.op \in {"send_da", "send_fip"})

\* the upload call that consumes the file read f
UploadOf(f) ==
    CASE f.path = "payload" ->
            [op |-> "send_da", args |-> <<args.load_addr, 0, f.bytes>>]
      [] f.path = "a32_payload" ->
            [op |-> "send_da", args |-> <<args.a32_load_addr, 0, f.bytes>>]
      [] f.path = "fip" ->
            [op |-> "send_fip", args |-> <<f.bytes>>]

\* C16: no file is read twice; the k-th upload call consumes the k-th file
\* read: send_da carries the configured load address of that payload, offset
\* 0 and all the bytes read, send_fip all the bytes read; at most one file
\* read is not yet uploaded, and in a run that returned every file read was
\* uploaded by exactly one call that succeeded.
C16_PayloadReadOnceUploadedOnce ==
    /\ \A k, l \in 1..Len(fileReads) : fileReads[k].path = fileReads[l].path => k = l
    /\ Len(FileUploads) <= Len(fileReads)
    /\ Len(fileReads) <= Len(FileUploads) + 1
    /\ \A k \in 1..Len(FileUploads) :
        /\ fileReads[k].ok
        /\ FileUploads[k].op = UploadOf(fileReads[k]).op
        /\ FileUploads[k].args = UploadOf(fileReads[k]).args
        /\ FileUploads[k].op = "send_da" => Len(FileUploads[k].args[3]) = Len(fileReads[k].bytes)
    /\ outcome = "returned" =>
        /\ Len(FileUploads) = Len(fileReads)
        /\ \A k \in 1..Len(FileUploads) : FileUploads[k].ok
        /\ Len(fileReads) >= (IF args.a32_payload THEN 2 ELSE 1)

\* a run that returned after uploading three non-empty files
C16_Witness ==
    /\ outcome = "returned"
    /\ Len(FileUploads) = 3
    /\ \A k \in 1..3 : fileReads[k].bytes # <<>>

\* C17: a file read that failed is the last one, the run has ended in the
\* panic of that read's expect, and no upload of that file was issued:
\* without the primary payload no send_da and no jump_da; without the
\* additional payload the one send_da of the primary payload and no jump_da;
\* without the FIP the baud-rate switch and second handshake but no send_fip
\* and no go.
C17_UnreadableFileAborts ==
    \A k \in 1..Len(fileReads) :
        ~fileReads[k].ok =>
            /\ k = Len(fileReads)
            /\ pc = "done" /\ outcome = "panicked"
            /\ error = (IF fileReads[k].path = "fip"
                        THEN "failed to open fip." ELSE "failed to open payload.")
            /\ Len(FileUploads) = k - 1
            /\ fileReads[k].path = "payload" => (Uploads = {} /\ Jumps = {})
            /\ fileReads[k].path = "a32_payload" =>
                (Cardinality(Uploads) = 1 /\ Jumps = {})
            /\ fileReads[k].path = "fip" =>
                /\ IssuedOp("bl2", "send_fip") = {} /\ IssuedOp("bl2", "go") = {}
                /\ \E j \in IssuedOp("bl2", "set_baudrate") :
                    /\ log[j].ok
                    /\ \E h \in IssuedOp("bl2", "handshake") : h > j /\ log[h].ok
                /\ log[Len(log)].op = "handshake"

\* the FIP file could not be read
C17_Witness ==
    /\ fileReads # <<>>
    /\ fileReads[Len(fileReads)].path = "fip" /\ ~fileReads[Len(fileReads)].ok

\* C18: a wait that matched a line hands the port back with nothing lost:
\* no byte the device sent after the matched line went away with the
\* BufReader.
C18_NoByteLost == (waits # <<>> /\ waits[Len(waits)]) => dropped = <<>>

\* C19: every wait_for_line returns.
C19_WaitTerminates == (pc \in WaitPcs) ~> (pc \notin WaitPcs)

====
